---- MODULE Spec2Model ----
(***************************************************************************)
(* State-machine model of the issue archive client:                        *)
(*   - IssueUploadForm   (components/IssueUploadForm.tsx)                   *)
(*   - PdfViewer         (components/PdfViewerIssue.tsx)                    *)
(*   - AllIssues         (pages/AllIssues.tsx)                              *)
(* Each component is checked under its own specification; the variables of *)
(* the components a specification does not exercise keep their initial     *)
(* values.                                                                 *)
(***************************************************************************)
EXTENDS Integers, Sequences, FiniteSets, TLC

\* ------------------------------------------------------------------------
\* Generic helpers
\* ------------------------------------------------------------------------

\* A JavaScript "T | null" value is a sequence of length 0 (null) or 1.
None == <<>>
Some(x) == <<x>>

Range(s) == {s[i] : i \in 1..Len(s)}

RemoveAt(s, i) == SubSeq(s, 1, i - 1) \o SubSeq(s, i + 1, Len(s))

MinOf(S) == CHOOSE m \in S : \A n \in S : m <= n

\* ------------------------------------------------------------------------
\* State
\* ------------------------------------------------------------------------

\* IssueUploadForm
VARIABLES
  formMounted,     \* the form instance is rendered by its parent
  hasOnSuccess,    \* the optional onSuccess prop was supplied
  formProps,       \* the year and month props
  formLoading,     \* useState loading
  formError,       \* useState error
  formSuccess,     \* useState success
  formData,        \* useState formData: title, description, pdf
  uploadRequests,  \* multipart payloads posted and not yet answered
  uploadsStored,   \* number of uploads the endpoint has accepted
  timers,          \* remaining milliseconds of the pending setTimeout calls
  onSuccessCalls   \* number of invocations of the onSuccess prop

formVars == <<formMounted, hasOnSuccess, formProps, formLoading, formError, formSuccess,
              formData, uploadRequests, uploadsStored, timers, onSuccessCalls>>

\* PdfViewer
VARIABLES
  viewerMounted,   \* a PdfViewer instance is rendered
  viewerProps,     \* its props: pdfUrl, title, issueId, onClose
  fullscreen,      \* useState fullscreen
  bodyOverflow     \* document.body.style.overflow

viewerVars == <<viewerMounted, viewerProps, fullscreen, bodyOverflow>>

\* PdfViewer.handleDownload and what it does to the browser
VARIABLES
  downloads,       \* handleDownload invocations suspended at an await
  lastDownload     \* what the invocation that completed last has done

downloadVars == <<downloads, lastDownload>>

\* AllIssues and the API server
VARIABLES
  userRole,        \* user?.role from useAuth()
  store,           \* the issues held by the API server
  issues,          \* useState issues
  years,           \* useState years
  expandedYears,   \* useState expandedYears
  expandedMonths,  \* useState expandedMonths (month keys, as a set)
  loading,         \* useState loading
  editingId,       \* useState editingId
  editForm,        \* useState editForm
  deleteConfirm,   \* useState deleteConfirm
  requests,        \* API calls awaiting their response, with the values
                   \* their continuation closes over
  requestsSent     \* number of API calls made so far

archiveVars == <<userRole, store, issues, years, expandedYears,
                 expandedMonths, loading, editingId, editForm, deleteConfirm,
                 requests, requestsSent>>

\* MonthView (previous-editions/:id/:month); its issues, loading and calls
\* in flight are the variables of the page above, the two pages never being
\* mounted together
VARIABLES
  route,              \* the year and month props of MonthView, if mounted
  uploadingForMonth,  \* useState uploadingForMonth of MonthView
  timerTargets        \* for each pending timer of the form, the year and
                      \* month its onSuccess closure refetches

monthVars == <<route, uploadingForMonth, timerTargets>>

uiVars == <<expandedYears, expandedMonths, editingId, editForm,
            deleteConfirm>>

vars == <<formVars, viewerVars, downloadVars, archiveVars, monthVars>>

\* ========================================================================
\* IssueUploadForm
\* ========================================================================

\* Bounds of the upload-form model
MaxTitleLen == 2
MaxUploads == 2

\* 50 * 1024 * 1024 bytes, the limit tested by handleFileChange
MaxFileBytes == 50 * 1024 * 1024

\* delay passed to setTimeout after a successful upload
SuccessDelayMs == 2000

PdfType == "application/pdf"

TitleChars == {" ", "a"}
Whitespace == {" "}

TitleInputs == UNION {[1..n -> TitleChars] : n \in 0..MaxTitleLen}
DescriptionInputs == {"", "details"}

FileTypes == {PdfType, "image/png", ""}
FileSizes == {1, MaxFileBytes, MaxFileBytes + 1}
FileInputs == [type : FileTypes, size : FileSizes]

\* err.response?.data?.message of a rejected upload: a server message or none
ServerMessages == {"Issue already exists for this month"}
UploadFailures == {None} \cup {Some(m) : m \in ServerMessages}


\* the (year, month) the form is rendered for
FormPropsInputs == {[year |-> 2024, month |-> 3]}

EmptyForm == [title |-> <<>>, description |-> "", pdf |-> None]

\* String.prototype.trim over the modelled alphabet
RECURSIVE TrimLeft(_)
TrimLeft(s) ==
  IF s # <<>> /\ Head(s) \in Whitespace THEN TrimLeft(Tail(s)) ELSE s

RECURSIVE TrimRight(_)
TrimRight(s) ==
  IF s # <<>> /\ s[Len(s)] \in Whitespace
  THEN TrimRight(SubSeq(s, 1, Len(s) - 1)) ELSE s

Trim(s) == TrimRight(TrimLeft(s))

\* !formData.title.trim()
TitleMissingNoTrim(title) == title = <<>>
TitleMissing(title) == Trim(title) = <<>>

\* the two checks of handleFileChange; "" means the file passes
FileErrorSizeOffByOne(file) ==
  IF file.type # PdfType THEN "Only PDF files are allowed"
  ELSE IF file.size > MaxFileBytes + 1 THEN "File size must be less than 50MB"
  ELSE ""
FileError(file) ==
  IF file.type # PdfType THEN "Only PDF files are allowed"
  ELSE IF file.size > MaxFileBytes THEN "File size must be less than 50MB"
  ELSE ""

\* disabled={loading} on the inputs and on the submit button
ControlsEnabledAlways == formMounted
ControlsEnabled == formMounted /\ ~formLoading

FormInit ==
  /\ formMounted = TRUE
  /\ hasOnSuccess \in BOOLEAN
  /\ formProps \in FormPropsInputs
  /\ formLoading = FALSE
  /\ formError = ""
  /\ formSuccess = FALSE
  /\ formData = EmptyForm
  /\ uploadRequests = <<>>
  /\ uploadsStored = 0
  /\ timers = <<>>
  /\ onSuccessCalls = 0

\* handleFileChange with e.target.files[0] = file
handleFileChange(file) ==
  /\ ControlsEnabled
  /\ IF FileError(file) # ""
     THEN /\ formError' = FileError(file)
          /\ UNCHANGED formData
     ELSE /\ formError' = ""
          /\ formData' = [formData EXCEPT !.pdf = Some(file)]
  /\ UNCHANGED <<formMounted, hasOnSuccess, formProps, formLoading, formSuccess,
                 uploadRequests, uploadsStored, timers, onSuccessCalls>>
  /\ UNCHANGED <<viewerVars, downloadVars, archiveVars, monthVars>>

\* handleInputChange for the input named "title"
handleTitleChange(value) ==
  /\ ControlsEnabled
  /\ formData' = [formData EXCEPT !.title = value]
  /\ UNCHANGED <<formMounted, hasOnSuccess, formProps, formLoading, formError,
                 formSuccess, uploadRequests, uploadsStored, timers,
                 onSuccessCalls>>
  /\ UNCHANGED <<viewerVars, downloadVars, archiveVars, monthVars>>

\* handleInputChange for the textarea named "description"
handleDescriptionChange(value) ==
  /\ ControlsEnabled
  /\ formData' = [formData EXCEPT !.description = value]
  /\ UNCHANGED <<formMounted, hasOnSuccess, formProps, formLoading, formError,
                 formSuccess, uploadRequests, uploadsStored, timers,
                 onSuccessCalls>>
  /\ UNCHANGED <<viewerVars, downloadVars, archiveVars, monthVars>>

\* the FormData built by handleSubmit
UploadPayload ==
  [year |-> formProps.year,
   month |-> formProps.month,
   title |-> formData.title,
   description |-> IF formData.description = "" THEN "" ELSE formData.description,
   pdf |-> formData.pdf[1]]

\* the model stops posting once MaxUploads uploads are stored or pending
UploadBudgetLeft == uploadsStored + Len(uploadRequests) < MaxUploads

\* handleSubmit up to its first await: validation, then the POST
handleSubmit ==
  /\ ControlsEnabled
  /\ formSuccess' = FALSE
  /\ IF TitleMissing(formData.title)
     THEN /\ formError' = "Title is required"
          /\ formLoading' = FALSE
          /\ UNCHANGED uploadRequests
     ELSE IF formData.pdf = None
     THEN /\ formError' = "PDF file is required"
          /\ formLoading' = FALSE
          /\ UNCHANGED uploadRequests
     ELSE /\ UploadBudgetLeft
          /\ formError' = ""
          /\ formLoading' = TRUE
          /\ uploadRequests' = Append(uploadRequests, UploadPayload)
  /\ UNCHANGED <<formMounted, hasOnSuccess, formProps, formData, uploadsStored, timers,
                 onSuccessCalls>>
  /\ UNCHANGED <<viewerVars, downloadVars, archiveVars, monthVars>>

\* state updates after the await of a resolved upload; an unmounted
\* component ignores its state setters
AfterUploadNoTimer ==
  /\ timers' = timers
  /\ IF formMounted
     THEN /\ formSuccess' = TRUE
          /\ formData' = EmptyForm
          /\ formLoading' = FALSE
     ELSE UNCHANGED <<formSuccess, formData, formLoading>>
AfterUploadResolved ==
  /\ timers' = Append(timers, SuccessDelayMs)
  /\ IF formMounted
     THEN /\ formSuccess' = TRUE
          /\ formData' = EmptyForm
          /\ formLoading' = FALSE
     ELSE UNCHANGED <<formSuccess, formData, formLoading>>

\* api.upload resolves for the i-th pending request
UploadSucceeds(i) ==
  /\ i \in 1..Len(uploadRequests)
  /\ uploadsStored' = uploadsStored + 1
  /\ uploadRequests' = RemoveAt(uploadRequests, i)
  /\ AfterUploadResolved
  /\ UNCHANGED <<formMounted, hasOnSuccess, formProps, formError, onSuccessCalls>>
  /\ UNCHANGED <<viewerVars, downloadVars, archiveVars, monthVars>>

\* the catch and finally blocks of handleSubmit
AfterUploadRejectedClearsForm(failure) ==
  IF formMounted
  THEN /\ formError' = IF failure = None THEN "Failed to upload issue"
                       ELSE failure[1]
       /\ formLoading' = FALSE
       /\ formData' = EmptyForm
  ELSE UNCHANGED <<formError, formLoading, formData>>
AfterUploadRejected(failure) ==
  IF formMounted
  THEN /\ formError' = IF failure = None THEN "Failed to upload issue"
                       ELSE failure[1]
       /\ formLoading' = FALSE
       /\ UNCHANGED formData
  ELSE UNCHANGED <<formError, formLoading, formData>>

\* api.upload rejects for the i-th pending request
UploadFails(i, failure) ==
  /\ i \in 1..Len(uploadRequests)
  /\ uploadRequests' = RemoveAt(uploadRequests, i)
  /\ AfterUploadRejected(failure)
  /\ UNCHANGED <<formMounted, hasOnSuccess, formProps, formSuccess, uploadsStored,
                 timers, onSuccessCalls>>
  /\ UNCHANGED <<viewerVars, downloadVars, archiveVars, monthVars>>

\* time passes by d milliseconds without any timer becoming overdue
AdvanceTime(d) ==
  /\ timers # <<>>
  /\ d > 0
  /\ d <= MinOf(Range(timers))
  /\ timers' = [i \in 1..Len(timers) |-> timers[i] - d]
  /\ UNCHANGED <<formMounted, hasOnSuccess, formProps, formLoading, formError,
                 formSuccess, formData, uploadRequests, uploadsStored,
                 onSuccessCalls>>
  /\ UNCHANGED <<viewerVars, downloadVars, archiveVars, monthVars>>

\* the setTimeout callback of handleSubmit
SuccessTimerFires ==
  /\ timers # <<>>
  /\ Head(timers) = 0
  /\ timers' = Tail(timers)
  /\ formSuccess' = IF formMounted THEN FALSE ELSE formSuccess
  /\ onSuccessCalls' = IF hasOnSuccess THEN onSuccessCalls + 1
                       ELSE onSuccessCalls
  /\ UNCHANGED <<formMounted, hasOnSuccess, formProps, formLoading, formError, formData,
                 uploadRequests, uploadsStored>>
  /\ UNCHANGED <<viewerVars, downloadVars, archiveVars, monthVars>>

\* the parent stops rendering the form (onCancel, or a collapsed section)
FormUnmount ==
  /\ formMounted
  /\ formMounted' = FALSE
  /\ UNCHANGED <<hasOnSuccess, formProps, formLoading, formError, formSuccess,
                 formData,
                 uploadRequests, uploadsStored, timers, onSuccessCalls>>
  /\ UNCHANGED <<viewerVars, downloadVars, archiveVars, monthVars>>

NextUpload ==
  \/ \E file \in FileInputs : handleFileChange(file)
  \/ \E value \in TitleInputs : handleTitleChange(value)
  \/ \E value \in DescriptionInputs : handleDescriptionChange(value)
  \/ handleSubmit
  \/ \E i \in 1..MaxUploads : UploadSucceeds(i)
  \/ \E i \in 1..MaxUploads, failure \in UploadFailures : UploadFails(i, failure)
  \/ \E d \in {SuccessDelayMs \div 2, SuccessDelayMs} : AdvanceTime(d)
  \/ SuccessTimerFires
  \/ FormUnmount

\* ========================================================================
\* PdfViewer
\* ========================================================================

PdfUrls == {"https://cdn/x.pdf", "https://cdn/y.pdf", "https://cdn/z.pdf"}
ViewerTitles == {<<>>, <<"I">>, <<".", "p", "d", "f">>,
                 <<"I", ".", "p", "d", "f">>,
                 <<"I", ".", "p", "d", "f", ".", "p", "d", "f">>}
ViewerIssueIds == {None, Some("a"), Some("b")}

ViewerPropsInputs ==
  [pdfUrl : PdfUrls, title : ViewerTitles, issueId : ViewerIssueIds,
   hasOnClose : BOOLEAN]

NoViewerProps ==
  [pdfUrl |-> "", title |-> <<>>, issueId |-> None, hasOnClose |-> FALSE]


\* body of the fullscreen effect
FullscreenEffect(fs) == IF fs THEN "hidden" ELSE "auto"

\* the function the effect returns, run before the next effect and on
\* unmount; current is the value of body.style.overflow when it runs
EffectCleanupMissing(current) == current
EffectCleanup(current) == "auto"

ViewerInit ==
  /\ viewerMounted = FALSE
  /\ viewerProps = NoViewerProps
  /\ fullscreen = FALSE
  /\ bodyOverflow = ""

\* a parent renders <PdfViewer .../>: useState(false), then the effect runs
ViewerMount(props) ==
  /\ ~viewerMounted
  /\ viewerMounted' = TRUE
  /\ viewerProps' = props
  /\ fullscreen' = FALSE
  /\ bodyOverflow' = FullscreenEffect(FALSE)
  /\ UNCHANGED <<formVars, downloadVars, archiveVars, monthVars>>

\* setFullscreen(true) from the "View fullscreen" button (shown if !fullscreen)
EnterFullscreen ==
  /\ viewerMounted
  /\ ~fullscreen
  /\ fullscreen' = TRUE
  /\ bodyOverflow' = FullscreenEffect(TRUE)
  /\ UNCHANGED <<viewerMounted, viewerProps>>
  /\ UNCHANGED <<formVars, downloadVars, archiveVars, monthVars>>

\* setFullscreen(false) from the "Exit fullscreen" button (shown if fullscreen)
ExitFullscreen ==
  /\ viewerMounted
  /\ fullscreen
  /\ fullscreen' = FALSE
  /\ bodyOverflow' = FullscreenEffect(FALSE)
  /\ UNCHANGED <<viewerMounted, viewerProps>>
  /\ UNCHANGED <<formVars, downloadVars, archiveVars, monthVars>>

\* the "Close" button, rendered if onClose && !fullscreen; the parents'
\* onClose stops rendering the viewer
ViewerClose ==
  /\ viewerMounted
  /\ viewerProps.hasOnClose
  /\ ~fullscreen
  /\ viewerMounted' = FALSE
  /\ viewerProps' = NoViewerProps
  /\ bodyOverflow' = EffectCleanup(bodyOverflow)
  /\ UNCHANGED fullscreen
  /\ UNCHANGED <<formVars, downloadVars, archiveVars, monthVars>>

\* the viewer is unmounted from outside (its page is left), in any mode
ViewerUnmount ==
  /\ viewerMounted
  /\ viewerMounted' = FALSE
  /\ viewerProps' = NoViewerProps
  /\ fullscreen' = FALSE
  /\ bodyOverflow' = EffectCleanup(bodyOverflow)
  /\ UNCHANGED <<formVars, downloadVars, archiveVars, monthVars>>

NextViewer ==
  \/ \E props \in ViewerPropsInputs : ViewerMount(props)
  \/ EnterFullscreen
  \/ ExitFullscreen
  \/ ViewerClose
  \/ ViewerUnmount

\* ------------------------------------------------------------------------
\* PdfViewer: embed URL, download filename, handleDownload
\* ------------------------------------------------------------------------

\* Bound of the download model: handleDownload invocations suspended at once
MaxDownloads == 2

DotPdf == <<".", "p", "d", "f">>

\* String.prototype.endsWith
EndsWith(s, suffix) ==
  /\ Len(s) >= Len(suffix)
  /\ SubSeq(s, Len(s) - Len(suffix) + 1, Len(s)) = suffix

\* `/api/issues/pdf-proxy/${issueId}`
ProxyUrl(id) == "/api/issues/pdf-proxy/" \o id

\* issueId ? ... : ... is a truthiness test: undefined and '' are falsy
Truthy(issueId) == issueId # None /\ issueId # Some("")

\* const iframeUrl = issueId ? `/api/issues/pdf-proxy/${issueId}` : pdfUrl
iframeUrlAlwaysProxy(props) ==
  IF props.issueId # None THEN ProxyUrl(props.issueId[1])
  ELSE ProxyUrl("")
iframeUrl(props) ==
  IF Truthy(props.issueId) THEN ProxyUrl(props.issueId[1])
  ELSE props.pdfUrl

\* src of the iframe
IframeSrc(props) == iframeUrl(props) \o "#toolbar=1&navpanes=0&scrollbar=1"

\* const downloadFilename = title.endsWith('.pdf') ? title : `${title}.pdf`
downloadFilenameAlwaysAppends(title) == title \o DotPdf
downloadFilename(title) ==
  IF EndsWith(title, DotPdf) THEN title ELSE title \o DotPdf

\* what window.URL.createObjectURL returns for the re-wrapped blob
ObjectUrl == "blob:pdf"

\* one handleDownload invocation: the render it closes over (props), the
\* URLs it has passed to fetch, where it is suspended, the response status,
\* and its effects: anchors clicked, object URLs created and revoked
NewDownload(props) ==
  [props |-> props,
   fetched |-> <<props.pdfUrl>>,
   phase |-> "fetch",
   ok |-> TRUE,
   outcome |-> "pending",
   saves |-> <<>>,
   created |-> <<>>,
   revoked |-> <<>>]

\* the Download button: handleDownload up to `await fetch(pdfUrl)`
handleDownload ==
  /\ viewerMounted
  /\ Len(downloads) < MaxDownloads
  /\ downloads' = Append(downloads, NewDownload(viewerProps))
  /\ UNCHANGED lastDownload
  /\ UNCHANGED <<viewerVars, formVars, archiveVars, monthVars>>

\* fetch resolves with a Response, whatever its status (ok: 2xx or not);
\* handleDownload goes on to `await response.blob()`
FetchResolves(i, ok) ==
  /\ i \in 1..Len(downloads)
  /\ downloads[i].phase = "fetch"
  /\ downloads' = [downloads EXCEPT ![i].phase = "blob", ![i].ok = ok]
  /\ UNCHANGED lastDownload
  /\ UNCHANGED <<viewerVars, formVars, archiveVars, monthVars>>

\* lines 48-56: re-wrap, createObjectURL, click an anchor on it, revoke
ObjectUrlSave(d) ==
  [d EXCEPT !.saves = Append(d.saves, [href |-> ObjectUrl,
                                       download |-> downloadFilename(d.props.title)]),
            !.created = Append(d.created, ObjectUrl),
            !.revoked = Append(d.revoked, ObjectUrl)]

\* the catch block: click an anchor on pdfUrl
FallbackSave(d) ==
  [d EXCEPT !.saves = Append(d.saves, [href |-> d.props.pdfUrl,
                                       download |-> downloadFilename(d.props.title)])]

\* fetch rejects (network failure, CORS): the catch block runs
FetchRejects(i) ==
  /\ i \in 1..Len(downloads)
  /\ downloads[i].phase = "fetch"
  /\ lastDownload' =
       Some(FallbackSave([downloads[i] EXCEPT !.phase = "done",
                                              !.outcome = "rejected"]))
  /\ downloads' = RemoveAt(downloads, i)
  /\ UNCHANGED <<viewerVars, formVars, archiveVars, monthVars>>

\* response.blob() resolves: the body of a 2xx response or of an error
\* response alike is wrapped and saved
BlobResolves(i) ==
  /\ i \in 1..Len(downloads)
  /\ downloads[i].phase = "blob"
  /\ lastDownload' =
       Some(ObjectUrlSave([downloads[i] EXCEPT
              !.phase = "done",
              !.outcome = IF downloads[i].ok THEN "ok"
                          ELSE "error response"]))
  /\ downloads' = RemoveAt(downloads, i)
  /\ UNCHANGED <<viewerVars, formVars, archiveVars, monthVars>>

\* response.blob() rejects (the body cannot be read): the catch block runs
BlobRejects(i) ==
  /\ i \in 1..Len(downloads)
  /\ downloads[i].phase = "blob"
  /\ lastDownload' =
       Some(FallbackSave([downloads[i] EXCEPT !.phase = "done",
                                              !.outcome = "unreadable"]))
  /\ downloads' = RemoveAt(downloads, i)
  /\ UNCHANGED <<viewerVars, formVars, archiveVars, monthVars>>

DownloadIdle ==
  /\ downloads = <<>>
  /\ lastDownload = None

\* a viewer just rendered by a page, with any props
ViewerOpen ==
  /\ viewerMounted = TRUE
  /\ viewerProps \in ViewerPropsInputs
  /\ fullscreen = FALSE
  /\ bodyOverflow = FullscreenEffect(FALSE)

\* one viewer instance from its first render on; a download goes on after
\* the viewer is closed
NextDownload ==
  \/ handleDownload
  \/ \E i \in 1..MaxDownloads, ok \in BOOLEAN : FetchResolves(i, ok)
  \/ \E i \in 1..MaxDownloads : FetchRejects(i)
  \/ \E i \in 1..MaxDownloads : BlobResolves(i)
  \/ \E i \in 1..MaxDownloads : BlobRejects(i)
  \/ EnterFullscreen
  \/ ExitFullscreen
  \/ ViewerClose
  \/ ViewerUnmount

\* ========================================================================
\* The API behind lib/api: issue store and its five endpoints
\* ========================================================================

IssueA == [id |-> "a", year |-> 2024, month |-> 3, title |-> "March Digest",
           description |-> "", pdf_url |-> "https://cdn/x.pdf",
           created_at |-> "2024-03-01"]
IssueB == [id |-> "b", year |-> 2024, month |-> 4, title |-> "April Digest",
           description |-> "Spring", pdf_url |-> "https://cdn/y.pdf",
           created_at |-> "2024-04-01"]
IssueC == [id |-> "c", year |-> 2023, month |-> 3, title |-> "March 2023",
           description |-> "", pdf_url |-> "https://cdn/z.pdf",
           created_at |-> "2023-03-01"]

\* contents of the store when the page is opened
InitialStores == {<<>>, <<IssueC, IssueA, IssueB>>}

Ids(list) == {list[i].id : i \in 1..Len(list)}

\* GET /issues/years: the years that have issues, most recent first
RECURSIVE YearsDescending(_)
YearsDescending(S) ==
  IF S = {} THEN <<>>
  ELSE LET top == CHOOSE y \in S : \A z \in S : z <= y
       IN <<top>> \o YearsDescending(S \ {top})

ServerYears(db) == YearsDescending({db[i].year : i \in 1..Len(db)})

\* GET /issues/content?year=Y
ServerContent(db, year) ==
  LET InYear(issue) == issue.year = year IN SelectSeq(db, InYear)

\* DELETE /issues/{id}
ServerDelete(db, id) ==
  LET Other(issue) == issue.id # id IN SelectSeq(db, Other)

\* PUT /issues/{id} with body {title, description}
ServerPut(db, id, form) ==
  [i \in 1..Len(db) |->
     IF db[i].id = id
     THEN [db[i] EXCEPT !.title = form.title,
                           !.description = form.description]
     ELSE db[i]]

\* ========================================================================
\* AllIssues (archive browser)
\* ========================================================================

\* Bounds of the archive model
MaxInFlight == 2
MaxRequests == 5

Roles == {"admin", "super_admin", "reader"}

\* the month rows the model's user toggles, out of the twelve rendered for
\* each year
ModelMonthRows == {<<2024, 3>>, <<2024, 4>>}

\* values typed into the inline edit form: a new title, a cleared description
EditTitleInputs == {"Edited"}
EditDescriptionInputs == {""}

EmptyEditForm == [title |-> "", description |-> ""]


Request(kind, year, id, form, snap) ==
  [kind |-> kind, year |-> year, id |-> id, form |-> form, snap |-> snap]

YearsRequest == Request("years", 0, "", EmptyEditForm, <<>>)
ContentRequest(year) == Request("content", year, "", EmptyEditForm, <<>>)
\* handleDelete and handleUpdate close over the issues (and editForm) of the
\* render in which they were called
DeleteRequest(id) == Request("delete", 0, id, EmptyEditForm, issues)
PutRequest(id) == Request("put", 0, id, editForm, issues)

CanSend ==
  /\ Len(requests) < MaxInFlight
  /\ requestsSent < MaxRequests

\* `${year}-${month}`
MonthKey(year, month) == <<year, month>>

IsAdmin == userRole = "admin"

\* the year list is rendered when !loading && years.length > 0
YearRowShown(year) == ~loading /\ year \in Range(years)

\* renderYear renders the twelve months of an expanded year
MonthRowShown(year, month) ==
  /\ YearRowShown(year)
  /\ year \in Range(expandedYears)
  /\ month \in 1..12

\* renderMonth renders the cards of monthIssues when the month is expanded
CardShown(issue) ==
  /\ issue \in Range(issues)
  /\ MonthRowShown(issue.year, issue.month)
  /\ MonthKey(issue.year, issue.month) \in expandedMonths

\* the state after the first render and its mount effect (fetchYears)
ArchiveInit ==
  /\ userRole \in Roles
  /\ store \in InitialStores
  /\ issues = <<>>
  /\ years = <<>>
  /\ expandedYears = <<>>
  /\ expandedMonths = {}
  /\ loading = TRUE
  /\ editingId = None
  /\ editForm = EmptyEditForm
  /\ deleteConfirm = None
  /\ requests = <<YearsRequest>>
  /\ requestsSent = 1

\* fetchYears after its await resolved: setYears, then fetchIssuesForYear of
\* the first year (setLoading(true) and the GET)
FetchYearsOk(i) ==
  /\ i \in 1..Len(requests)
  /\ requests[i].kind = "years"
  /\ years' = ServerYears(store)
  /\ IF ServerYears(store) # <<>>
     THEN /\ loading' = TRUE
          /\ requests' = Append(RemoveAt(requests, i),
                                ContentRequest(ServerYears(store)[1]))
          /\ requestsSent' = requestsSent + 1
     ELSE /\ requests' = RemoveAt(requests, i)
          /\ UNCHANGED <<loading, requestsSent>>
  /\ UNCHANGED <<userRole, store, issues, uiVars>>
  /\ UNCHANGED <<formVars, viewerVars, downloadVars, monthVars>>

\* fetchYears when its await rejected: console.error only
FetchYearsFails(i) ==
  /\ i \in 1..Len(requests)
  /\ requests[i].kind = "years"
  /\ requests' = RemoveAt(requests, i)
  /\ UNCHANGED <<userRole, store, issues, years, loading, requestsSent,
                 uiVars>>
  /\ UNCHANGED <<formVars, viewerVars, downloadVars, monthVars>>

\* setIssues(response.issues || []): the list after a content response
IssuesAfterFetch(current, fetched) == fetched

\* fetchIssuesForYear after its await resolved, with its finally block
FetchIssuesOk(i) ==
  /\ i \in 1..Len(requests)
  /\ requests[i].kind = "content"
  /\ issues' = IssuesAfterFetch(issues,
                                ServerContent(store, requests[i].year))
  /\ loading' = FALSE
  /\ requests' = RemoveAt(requests, i)
  /\ UNCHANGED <<userRole, store, years, requestsSent, uiVars>>
  /\ UNCHANGED <<formVars, viewerVars, downloadVars, monthVars>>

\* fetchIssuesForYear when its await rejected, with its finally block
FetchIssuesFails(i) ==
  /\ i \in 1..Len(requests)
  /\ requests[i].kind = "content"
  /\ loading' = FALSE
  /\ requests' = RemoveAt(requests, i)
  /\ UNCHANGED <<userRole, store, issues, years, requestsSent, uiVars>>
  /\ UNCHANGED <<formVars, viewerVars, downloadVars, monthVars>>

\* toggleYear from the year header button
toggleYear(year) ==
  /\ YearRowShown(year)
  /\ IF year \in Range(expandedYears)
     THEN /\ LET Other(y) == y # year
             IN expandedYears' = SelectSeq(expandedYears, Other)
          /\ UNCHANGED <<loading, requests, requestsSent>>
     ELSE /\ CanSend
          /\ expandedYears' = Append(expandedYears, year)
          /\ loading' = TRUE
          /\ requests' = Append(requests, ContentRequest(year))
          /\ requestsSent' = requestsSent + 1
  /\ UNCHANGED <<userRole, store, issues, years, expandedMonths, editingId,
                 editForm, deleteConfirm>>
  /\ UNCHANGED <<formVars, viewerVars, downloadVars, monthVars>>

\* toggleMonth from the month header button: no request
toggleMonth(year, month) ==
  /\ MonthRowShown(year, month)
  /\ expandedMonths' =
       IF MonthKey(year, month) \in expandedMonths
       THEN expandedMonths \ {MonthKey(year, month)}
       ELSE expandedMonths \cup {MonthKey(year, month)}
  /\ UNCHANGED <<userRole, store, issues, years, expandedYears, loading,
                 editingId, editForm, deleteConfirm, requests, requestsSent>>
  /\ UNCHANGED <<formVars, viewerVars, downloadVars, monthVars>>

\* the Edit button of a card (admin only, card not in edit mode)
StartEdit(issue) ==
  /\ CardShown(issue)
  /\ IsAdmin
  /\ editingId # Some(issue.id)
  /\ editingId' = Some(issue.id)
  /\ editForm' = [title |-> issue.title, description |-> issue.description]
  /\ UNCHANGED <<userRole, store, issues, years, expandedYears,
                 expandedMonths, loading, deleteConfirm, requests,
                 requestsSent>>
  /\ UNCHANGED <<formVars, viewerVars, downloadVars, monthVars>>

\* some card is rendered in edit mode
EditCardShown ==
  \E k \in 1..Len(issues) :
    CardShown(issues[k]) /\ editingId = Some(issues[k].id)

\* onChange of the title input of the edit form
EditTitle(value) ==
  /\ EditCardShown
  /\ editForm' = [editForm EXCEPT !.title = value]
  /\ UNCHANGED <<userRole, store, issues, years, expandedYears,
                 expandedMonths, loading, editingId, deleteConfirm, requests,
                 requestsSent>>
  /\ UNCHANGED <<formVars, viewerVars, downloadVars, monthVars>>

\* onChange of the description textarea of the edit form
EditDescription(value) ==
  /\ EditCardShown
  /\ editForm' = [editForm EXCEPT !.description = value]
  /\ UNCHANGED <<userRole, store, issues, years, expandedYears,
                 expandedMonths, loading, editingId, deleteConfirm, requests,
                 requestsSent>>
  /\ UNCHANGED <<formVars, viewerVars, downloadVars, monthVars>>

\* the Cancel button of the edit form
CancelEdit ==
  /\ EditCardShown
  /\ editingId' = None
  /\ UNCHANGED <<userRole, store, issues, years, expandedYears,
                 expandedMonths, loading, editForm, deleteConfirm, requests,
                 requestsSent>>
  /\ UNCHANGED <<formVars, viewerVars, downloadVars, monthVars>>

\* the Save button: handleUpdate(issue.id) up to its await
SaveEdit ==
  /\ EditCardShown
  /\ CanSend
  /\ requests' = Append(requests, PutRequest(editingId[1]))
  /\ requestsSent' = requestsSent + 1
  /\ UNCHANGED <<userRole, store, issues, years, loading, uiVars>>
  /\ UNCHANGED <<formVars, viewerVars, downloadVars, monthVars>>

\* { ...issue, ...editForm }
Patched(issue, form) ==
  [issue EXCEPT !.title = form.title, !.description = form.description]

\* handleUpdate after its await resolved
UpdateOk(i) ==
  /\ i \in 1..Len(requests)
  /\ requests[i].kind = "put"
  /\ requests[i].id \in Ids(store)
  /\ store' = ServerPut(store, requests[i].id, requests[i].form)
  /\ issues' = [k \in 1..Len(requests[i].snap) |->
                  IF requests[i].snap[k].id = requests[i].id
                  THEN Patched(requests[i].snap[k], requests[i].form)
                  ELSE requests[i].snap[k]]
  /\ editingId' = None
  /\ editForm' = EmptyEditForm
  /\ requests' = RemoveAt(requests, i)
  /\ UNCHANGED <<userRole, years, expandedYears, expandedMonths, loading,
                 deleteConfirm, requestsSent>>
  /\ UNCHANGED <<formVars, viewerVars, downloadVars, monthVars>>

\* handleUpdate when its await rejected: console.error only
UpdateFails(i) ==
  /\ i \in 1..Len(requests)
  /\ requests[i].kind = "put"
  /\ requests' = RemoveAt(requests, i)
  /\ UNCHANGED <<userRole, store, issues, years, loading, requestsSent,
                 uiVars>>
  /\ UNCHANGED <<formVars, viewerVars, downloadVars, monthVars>>

\* the controls of a card that is not in edit mode are rendered for admins
AdminControlsShown(issue) ==
  /\ CardShown(issue)
  /\ IsAdmin
  /\ editingId # Some(issue.id)

\* the Confirm and Cancel buttons replace the Delete button of the card
\* whose id is deleteConfirm
ConfirmShownAlways(issue) == AdminControlsShown(issue)
ConfirmShown(issue) ==
  /\ AdminControlsShown(issue)
  /\ deleteConfirm = Some(issue.id)

\* the Delete (trash) button: setDeleteConfirm(issue.id)
AskDelete(issue) ==
  /\ AdminControlsShown(issue)
  /\ deleteConfirm # Some(issue.id)
  /\ deleteConfirm' = Some(issue.id)
  /\ UNCHANGED <<userRole, store, issues, years, expandedYears,
                 expandedMonths, loading, editingId, editForm, requests,
                 requestsSent>>
  /\ UNCHANGED <<formVars, viewerVars, downloadVars, monthVars>>

\* the Cancel button of the confirmation: setDeleteConfirm(null)
CancelDelete(issue) ==
  /\ ConfirmShown(issue)
  /\ deleteConfirm' = None
  /\ UNCHANGED <<userRole, store, issues, years, expandedYears,
                 expandedMonths, loading, editingId, editForm, requests,
                 requestsSent>>
  /\ UNCHANGED <<formVars, viewerVars, downloadVars, monthVars>>

\* the Confirm button: handleDelete(issue.id) up to its await
ConfirmDelete(issue) ==
  /\ ConfirmShown(issue)
  /\ CanSend
  /\ requests' = Append(requests, DeleteRequest(issue.id))
  /\ requestsSent' = requestsSent + 1
  /\ UNCHANGED <<userRole, store, issues, years, loading, uiVars>>
  /\ UNCHANGED <<formVars, viewerVars, downloadVars, monthVars>>

\* issues.filter(issue => issue.id !== id)
WithoutId(list, id) ==
  LET Other(issue) == issue.id # id IN SelectSeq(list, Other)

\* handleDelete after its await resolved
DeleteOk(i) ==
  /\ i \in 1..Len(requests)
  /\ requests[i].kind = "delete"
  /\ requests[i].id \in Ids(store)
  /\ store' = ServerDelete(store, requests[i].id)
  /\ issues' = WithoutId(requests[i].snap, requests[i].id)
  /\ deleteConfirm' = None
  /\ requests' = RemoveAt(requests, i)
  /\ UNCHANGED <<userRole, years, expandedYears, expandedMonths, loading,
                 editingId, editForm, requestsSent>>
  /\ UNCHANGED <<formVars, viewerVars, downloadVars, monthVars>>

\* handleDelete when its await rejected: console.error only
DeleteFails(i) ==
  /\ i \in 1..Len(requests)
  /\ requests[i].kind = "delete"
  /\ requests' = RemoveAt(requests, i)
  /\ UNCHANGED <<userRole, store, issues, years, loading, requestsSent,
                 uiVars>>
  /\ UNCHANGED <<formVars, viewerVars, downloadVars, monthVars>>

Slots == 1..MaxInFlight

NextArchive ==
  \/ \E i \in Slots : FetchYearsOk(i)
  \/ \E i \in Slots : FetchYearsFails(i)
  \/ \E i \in Slots : FetchIssuesOk(i)
  \/ \E i \in Slots : FetchIssuesFails(i)
  \/ \E year \in Range(years) : toggleYear(year)
  \/ \E row \in ModelMonthRows : toggleMonth(row[1], row[2])
  \/ \E k \in 1..Len(issues) : StartEdit(issues[k])
  \/ \E value \in EditTitleInputs : EditTitle(value)
  \/ \E value \in EditDescriptionInputs : EditDescription(value)
  \/ CancelEdit
  \/ SaveEdit
  \/ \E i \in Slots : UpdateOk(i)
  \/ \E i \in Slots : UpdateFails(i)
  \/ \E k \in 1..Len(issues) : AskDelete(issues[k])
  \/ \E k \in 1..Len(issues) : CancelDelete(issues[k])
  \/ \E k \in 1..Len(issues) : ConfirmDelete(issues[k])
  \/ \E i \in Slots : DeleteOk(i)
  \/ \E i \in Slots : DeleteFails(i)

\* the page before it is opened
ArchiveIdle ==
  /\ userRole = "reader"
  /\ store = <<>>
  /\ issues = <<>>
  /\ years = <<>>
  /\ expandedYears = <<>>
  /\ expandedMonths = {}
  /\ loading = TRUE
  /\ editingId = None
  /\ editForm = EmptyEditForm
  /\ deleteConfirm = None
  /\ requests = <<>>
  /\ requestsSent = 0

\* ========================================================================
\* MonthView, the month detail page, with the IssueUploadForm it renders
\* ========================================================================

\* handleDelete and handleUpdate of this page are, line for line, those of
\* AllIssues and are modelled there; this section models the route, the
\* list fetch and the upload form.

\* the month routes the model's user visits
MonthRoutes == {<<2024, 3>>, <<2024, 4>>}

\* what the model's admin enters into the upload form of this page
MonthTitleInputs == {<<"a">>}
MonthFileInputs == {[type |-> PdfType, size |-> 1]}

\* user?.role === 'super_admin', the test in front of the upload form, the
\* Upload Content button and the Edit and Delete buttons of this page
MonthIsAdmin == userRole = "super_admin"

\* GET /issues/content?year=Y&month=M
ServerMonthContent(db, year, month) ==
  LET InMonth(issue) == issue.year = year /\ issue.month = month
  IN  SelectSeq(db, InMonth)

\* the characters of a form value as the string the server stores
RECURSIVE Text(_)
Text(chars) == IF chars = <<>> THEN "" ELSE Head(chars) \o Text(Tail(chars))

UploadIds == <<"u1", "u2", "u3", "u4">>

\* POST /issues/upload: the created issue joins the store
ServerUpload(db, payload) ==
  LET Free == {n \in 1..Len(UploadIds) : UploadIds[n] \notin Ids(db)}
  IN  Append(db, [id |-> UploadIds[MinOf(Free)],
                  year |-> payload.year,
                  month |-> payload.month,
                  title |-> Text(payload.title),
                  description |-> payload.description,
                  pdf_url |-> "https://cdn/u.pdf",
                  created_at |-> "2024-05-01"])

\* api.get of fetchIssues awaiting its response; before is the list held
\* when the call was made
MonthContentRequest(year, month) ==
  [kind |-> "content", year |-> year, month |-> month, before |-> issues]

\* the placeholder branch: !loading && issues.length === 0
PlaceholderShown == route # <<>> /\ ~loading /\ issues = <<>>

\* the Upload Content button of the placeholder
MonthUploadButtonShown == PlaceholderShown /\ MonthIsAdmin

\* <IssueUploadForm/> is rendered
MonthFormShown == route # <<>> /\ MonthIsAdmin /\ uploadingForMonth

\* the state after the first render and its effect (fetchIssues)
MonthInit ==
  /\ userRole \in Roles
  /\ store \in InitialStores
  /\ route \in MonthRoutes
  /\ issues = <<>>
  /\ years = <<>>
  /\ expandedYears = <<>>
  /\ expandedMonths = {}
  /\ loading = TRUE
  /\ editingId = None
  /\ editForm = EmptyEditForm
  /\ deleteConfirm = None
  /\ requests = <<[kind |-> "content", year |-> route[1],
                   month |-> route[2], before |-> <<>>]>>
  /\ requestsSent = 1
  /\ uploadingForMonth = FALSE
  /\ timerTargets = <<>>

\* the route changes to another month: the effect runs fetchIssues for the
\* new props; the state of the page and of a rendered form is kept
Navigate(r) ==
  /\ route # <<>>
  /\ r # route
  /\ CanSend
  /\ route' = r
  /\ formProps' = IF formMounted THEN [year |-> r[1], month |-> r[2]]
                  ELSE formProps
  /\ loading' = TRUE
  /\ requests' = Append(requests, MonthContentRequest(r[1], r[2]))
  /\ requestsSent' = requestsSent + 1
  /\ UNCHANGED <<userRole, store, issues, years, uiVars>>
  /\ UNCHANGED <<uploadingForMonth, timerTargets>>
  /\ UNCHANGED <<formMounted, hasOnSuccess, formLoading, formError,
                 formSuccess, formData, uploadRequests, uploadsStored,
                 timers, onSuccessCalls>>
  /\ UNCHANGED <<viewerVars, downloadVars>>

\* setIssues(response.issues || [])
MonthIssuesAfterFetchMerges(current, fetched) ==
  IF current = <<>> THEN fetched ELSE current
MonthIssuesAfterFetch(current, fetched) == fetched

\* fetchIssues after its await resolved, with its finally block
MonthFetchOk(i) ==
  /\ i \in 1..Len(requests)
  /\ requests[i].kind = "content"
  /\ issues' = MonthIssuesAfterFetch(issues,
                 ServerMonthContent(store, requests[i].year,
                                    requests[i].month))
  /\ loading' = FALSE
  /\ requests' = RemoveAt(requests, i)
  /\ UNCHANGED <<userRole, store, years, requestsSent, uiVars>>
  /\ UNCHANGED <<formVars, viewerVars, downloadVars, monthVars>>

\* the catch block of fetchIssues: console.error, the list is not touched
MonthIssuesAfterFailureCleared(current) == <<>>
MonthIssuesAfterFailure(current) == current

\* fetchIssues when its await rejected, with its finally block
MonthFetchFails(i) ==
  /\ i \in 1..Len(requests)
  /\ requests[i].kind = "content"
  /\ issues' = MonthIssuesAfterFailure(issues)
  /\ loading' = FALSE
  /\ requests' = RemoveAt(requests, i)
  /\ UNCHANGED <<userRole, store, years, requestsSent, uiVars>>
  /\ UNCHANGED <<formVars, viewerVars, downloadVars, monthVars>>

\* the Upload Content button: setUploadingForMonth(true) renders a new form
\* (the model follows a new form only when no upload of an earlier one is
\* still pending)
MonthOpenUpload ==
  /\ MonthUploadButtonShown
  /\ ~uploadingForMonth
  /\ uploadRequests = <<>>
  /\ uploadingForMonth' = TRUE
  /\ formMounted' = TRUE
  /\ hasOnSuccess' = TRUE
  /\ formProps' = [year |-> route[1], month |-> route[2]]
  /\ formLoading' = FALSE
  /\ formError' = ""
  /\ formSuccess' = FALSE
  /\ formData' = EmptyForm
  /\ UNCHANGED <<uploadRequests, uploadsStored, timers, onSuccessCalls>>
  /\ UNCHANGED <<route, timerTargets>>
  /\ UNCHANGED <<viewerVars, downloadVars, archiveVars>>

\* the form's Cancel button (disabled while loading): onCancel
MonthCancelUpload ==
  /\ MonthFormShown
  /\ ControlsEnabled
  /\ uploadingForMonth' = FALSE
  /\ formMounted' = FALSE
  /\ UNCHANGED <<hasOnSuccess, formProps, formLoading, formError,
                 formSuccess, formData, uploadRequests, uploadsStored,
                 timers, onSuccessCalls>>
  /\ UNCHANGED <<route, timerTargets>>
  /\ UNCHANGED <<viewerVars, downloadVars, archiveVars>>

\* api.upload resolves for the i-th pending request: the server has stored
\* the issue; the timer's callback closes over the onSuccess of the render
\* in which the form was submitted
MonthUploadSucceeds(i) ==
  /\ i \in 1..Len(uploadRequests)
  /\ store' = ServerUpload(store, uploadRequests[i])
  /\ uploadsStored' = uploadsStored + 1
  /\ uploadRequests' = RemoveAt(uploadRequests, i)
  /\ AfterUploadResolved
  /\ timerTargets' = Append(timerTargets, <<uploadRequests[i].year,
                                            uploadRequests[i].month>>)
  /\ UNCHANGED <<formMounted, hasOnSuccess, formProps, formError,
                 onSuccessCalls>>
  /\ UNCHANGED <<userRole, issues, years, loading, requests, requestsSent,
                 uiVars>>
  /\ UNCHANGED <<route, uploadingForMonth>>
  /\ UNCHANGED <<viewerVars, downloadVars>>

\* the setTimeout callback of handleSubmit with MonthView's onSuccess:
\* setUploadingForMonth(false), then fetchIssues(year, monthNum)
MonthSuccessTimerFires ==
  /\ route # <<>>
  /\ timers # <<>>
  /\ Head(timers) = 0
  /\ CanSend
  /\ timers' = Tail(timers)
  /\ timerTargets' = Tail(timerTargets)
  /\ formSuccess' = IF formMounted THEN FALSE ELSE formSuccess
  /\ onSuccessCalls' = onSuccessCalls + 1
  /\ uploadingForMonth' = FALSE
  /\ formMounted' = FALSE
  /\ loading' = TRUE
  /\ requests' = Append(requests,
                        MonthContentRequest(Head(timerTargets)[1],
                                            Head(timerTargets)[2]))
  /\ requestsSent' = requestsSent + 1
  /\ UNCHANGED <<hasOnSuccess, formProps, formLoading, formError, formData,
                 uploadRequests, uploadsStored>>
  /\ UNCHANGED <<userRole, store, issues, years, uiVars>>
  /\ UNCHANGED route
  /\ UNCHANGED <<viewerVars, downloadVars>>

NextMonth ==
  \/ \E r \in MonthRoutes : Navigate(r)
  \/ \E i \in Slots : MonthFetchOk(i)
  \/ \E i \in Slots : MonthFetchFails(i)
  \/ MonthOpenUpload
  \/ MonthCancelUpload
  \/ \E value \in MonthTitleInputs : handleTitleChange(value)
  \/ \E file \in MonthFileInputs : handleFileChange(file)
  \/ handleSubmit
  \/ \E i \in 1..MaxUploads : MonthUploadSucceeds(i)
  \/ \E i \in 1..MaxUploads, failure \in UploadFailures : UploadFails(i, failure)
  \/ \E d \in {SuccessDelayMs} : AdvanceTime(d)
  \/ MonthSuccessTimerFires

\* the page as a visitor uses it: routes and their fetches
NextMonthBrowse ==
  \/ \E r \in MonthRoutes : Navigate(r)
  \/ \E i \in Slots : MonthFetchOk(i)
  \/ \E i \in Slots : MonthFetchFails(i)

\* no MonthView is mounted
MonthIdle ==
  /\ route = <<>>
  /\ uploadingForMonth = FALSE
  /\ timerTargets = <<>>

\* the upload form alone, its parent reduced to mounting and unmounting it
InitUpload == FormInit /\ ViewerInit /\ DownloadIdle /\ ArchiveIdle /\ MonthIdle

SpecUpload == InitUpload /\ [][NextUpload]_vars

\* the same with the event loop's guarantee that time passes and that a due
\* timer callback runs
SpecUploadLive ==
  /\ InitUpload /\ [][NextUpload]_vars
  /\ WF_vars(\E d \in {SuccessDelayMs \div 2, SuccessDelayMs} : AdvanceTime(d))
  /\ WF_vars(SuccessTimerFires)

\* the viewer alone
FormIdle ==
  /\ formMounted = FALSE
  /\ hasOnSuccess = FALSE
  /\ formProps \in FormPropsInputs
  /\ formLoading = FALSE
  /\ formError = ""
  /\ formSuccess = FALSE
  /\ formData = EmptyForm
  /\ uploadRequests = <<>>
  /\ uploadsStored = 0
  /\ timers = <<>>
  /\ onSuccessCalls = 0

InitViewer == FormIdle /\ ViewerInit /\ DownloadIdle /\ ArchiveIdle /\ MonthIdle

SpecViewer == InitViewer /\ [][NextViewer]_vars

\* the archive browser alone, from its mount
InitArchive == FormIdle /\ ViewerInit /\ DownloadIdle /\ ArchiveInit /\ MonthIdle

SpecArchive == InitArchive /\ [][NextArchive]_vars

\* the month detail page from its mount, no form rendered yet
InitMonth == FormIdle /\ ViewerInit /\ DownloadIdle /\ MonthInit

SpecMonth == InitMonth /\ [][NextMonth]_vars

SpecMonthBrowse == InitMonth /\ [][NextMonthBrowse]_vars

\* one viewer instance and its downloads
InitDownload == FormIdle /\ ViewerOpen /\ DownloadIdle /\ ArchiveIdle /\ MonthIdle

SpecDownload == InitDownload /\ [][NextDownload]_vars

\* ========================================================================
\* Properties: IssueUploadForm
\* ========================================================================

\* C1 (part): every upload request in flight carries a file of media type
\* application/pdf and of at most 50 MiB.
SentFilesValid ==
  \A i \in 1..Len(uploadRequests) :
    /\ uploadRequests[i].pdf.type = "application/pdf"
    /\ uploadRequests[i].pdf.size <= 50 * 1024 * 1024

\* C1 (part): selecting a PDF of exactly 50 MiB stores it in the form
\* without an error.
ExactLimitAccepted ==
  \A file \in FileInputs :
    (handleFileChange(file) /\ file.type = "application/pdf"
       /\ file.size = 50 * 1024 * 1024)
      => (formData'.pdf = Some(file) /\ formError' = "")

\* C1: after any sequence of file selections, field edits and submits no
\* upload request carries a non-PDF file or a file over 50 MiB, and a file
\* of exactly 50 MiB is accepted.
C1_OnlyValidFilesUploaded == []SentFilesValid /\ [][ExactLimitAccepted]_vars

\* C1 witness: a request carrying a file of exactly 50 MiB is in flight.
C1_Witness ==
  \E i \in 1..Len(uploadRequests) : uploadRequests[i].pdf.size = 50 * 1024 * 1024

\* a title that is empty or consists of whitespace only
IsBlank(title) == \A i \in 1..Len(title) : title[i] = " "

\* C2: a submit with a blank title or without a selected file sets an
\* error, sends no request, leaves the form fields unchanged and ends with
\* the busy flag cleared.
C2_InvalidSubmitAborts ==
  [][(handleSubmit /\ (IsBlank(formData.title) \/ formData.pdf = None))
       => /\ formError' # ""
          /\ uploadRequests' = uploadRequests
          /\ formData' = formData
          /\ formLoading' = FALSE]_vars

\* C2 witness: a submit of a whitespace-only title with a file selected was
\* rejected.
C2_Witness ==
  /\ formError = "Title is required"
  /\ formData.title # <<>>
  /\ formData.pdf # None
  /\ ~formLoading
  /\ uploadRequests = <<>>

\* C9 (part): a resolved upload shows the indicator, clears the form and
\* arms one timer of 2000 ms, without calling the callback yet.
SuccessStep ==
  \A i \in 1..Len(uploadRequests) :
    UploadSucceeds(i) =>
      /\ timers' = Append(timers, 2000)
      /\ onSuccessCalls' = onSuccessCalls
      /\ formMounted => (formSuccess' /\ formData' = EmptyForm)

\* C9 (part): the callback count moves only by one, only when the oldest
\* timer has run its 2000 ms down to zero, and the indicator is hidden then.
CallbackStep ==
  onSuccessCalls' # onSuccessCalls =>
    /\ onSuccessCalls' = onSuccessCalls + 1
    /\ timers # <<>> /\ Head(timers) = 0 /\ timers' = Tail(timers)
    /\ formMounted => ~formSuccess'

\* C9 (part): a rejected upload keeps the entered fields, shows the server's
\* message or else the generic one, and arms no timer.
FailureStep ==
  \A i \in 1..Len(uploadRequests), failure \in UploadFailures :
    UploadFails(i, failure) =>
      /\ timers' = timers
      /\ onSuccessCalls' = onSuccessCalls
      /\ formMounted =>
           /\ formData' = formData
           /\ formError' = (IF failure = None THEN "Failed to upload issue"
                            ELSE failure[1])

\* C9 (part): with a callback supplied, every stored upload has either had
\* its callback or still has its timer pending: one callback per success.
OneCallbackPerSuccess ==
  /\ Len(timers) + (IF hasOnSuccess THEN onSuccessCalls ELSE 0) <= uploadsStored
  /\ hasOnSuccess => onSuccessCalls + Len(timers) = uploadsStored
  /\ ~hasOnSuccess => onSuccessCalls = 0
  /\ \A i \in 1..Len(timers) : timers[i] \in 0..2000

\* C9 (part): the callback of the n-th stored upload is eventually called.
CallbackEventually ==
  \A n \in 1..MaxUploads :
    (hasOnSuccess /\ uploadsStored >= n) ~> (onSuccessCalls >= n)

\* C9: success shows the indicator, clears the form and, 2 seconds later,
\* hides the indicator and calls the callback exactly once; no callback for
\* a failed submit; a failed request keeps the fields and shows an error.
C9_SuccessSequence ==
  /\ []OneCallbackPerSuccess
  /\ [][SuccessStep /\ CallbackStep /\ FailureStep]_vars
  /\ CallbackEventually

\* C9 witness: the callback has run once for one stored upload, after the
\* form was cleared.
C9_Witness ==
  /\ hasOnSuccess
  /\ uploadsStored = 1
  /\ onSuccessCalls = 1
  /\ timers = <<>>
  /\ formMounted /\ ~formSuccess /\ formData = EmptyForm

\* C10: at most one upload request of the form is in flight; while the form
\* is mounted the busy flag is set exactly when one is in flight; and no
\* request is added while the flag is set.
BusyFlagTracksRequest ==
  /\ Len(uploadRequests) <= 1
  /\ formMounted => (formLoading <=> Len(uploadRequests) = 1)

NoSubmitWhileBusy ==
  formLoading => Len(uploadRequests') <= Len(uploadRequests)

C10_BusyFlag == []BusyFlagTracksRequest /\ [][NoSubmitWhileBusy]_vars

\* C10 witness: a request is in flight with the busy flag set.
C10_Witness == formMounted /\ formLoading /\ Len(uploadRequests) = 1

\* ========================================================================
\* Properties: PdfViewer
\* ========================================================================

\* C3: page scrolling is disabled exactly while a mounted viewer is in
\* fullscreen, and a mounted viewer outside fullscreen always has the
\* overflow value it had before fullscreen was entered ("auto").
C3_ScrollLock ==
  /\ (bodyOverflow = "hidden") <=> (viewerMounted /\ fullscreen)
  /\ (viewerMounted /\ ~fullscreen) => bodyOverflow = "auto"

\* C3 witness: scrolling is locked by a fullscreen viewer.
C3_Witness == viewerMounted /\ fullscreen /\ bodyOverflow = "hidden"

\* ========================================================================
\* Properties: AllIssues
\* ========================================================================

\* C4: when a DELETE of issue X succeeds the displayed list becomes the
\* list displayed just before minus exactly the issue with id X.
C4_DeleteRemovesExactlyThatIssue ==
  [][\A i \in Slots :
       DeleteOk(i) =>
         LET NotX(issue) == issue.id # requests[i].id
         IN issues' = SelectSeq(issues, NotX)]_vars

\* C5: a successful edit of issue X keeps the members and the order of the
\* displayed list, changes no field of another issue, and changes of X only
\* the title and the description.
C5_EditChangesOnlyTitleAndDescription ==
  [][\A i \in Slots :
       UpdateOk(i) =>
         /\ Len(issues') = Len(issues)
         /\ \A k \in 1..Len(issues) :
              /\ issues'[k].id = issues[k].id
              /\ issues'[k].year = issues[k].year
              /\ issues'[k].month = issues[k].month
              /\ issues'[k].pdf_url = issues[k].pdf_url
              /\ issues'[k].created_at = issues[k].created_at
              /\ issues[k].id # requests[i].id => issues'[k] = issues[k]]_vars

\* a DELETE request was appended to the calls in flight by this step
DeleteSent ==
  /\ Len(requests') = Len(requests) + 1
  /\ requests'[Len(requests')].kind = "delete"

\* C6 (part): a DELETE for X is sent only while X is the issue pending
\* confirmation, and sending it leaves the pending confirmation in place.
DeleteOnlyWhenPending ==
  DeleteSent =>
    /\ deleteConfirm = Some(requests'[Len(requests')].id)
    /\ deleteConfirm' = deleteConfirm

\* a pending DELETE request was answered by this step
DeleteAnswered ==
  \E i \in 1..Len(requests) :
    requests[i].kind = "delete" /\ requests' = RemoveAt(requests, i)

\* C6 (part): a click that clears, sets or moves the pending confirmation
\* (Cancel, Delete) sends no request and changes nothing on the server; the
\* only other step that clears it is the answer to a DELETE.
CancelSendsNothing ==
  deleteConfirm' # deleteConfirm =>
    \/ requests' = requests /\ store' = store /\ issues' = issues
    \/ deleteConfirm' = None /\ DeleteAnswered

\* C6 (part): a successful delete (the server dropped an issue) clears the
\* pending confirmation; a failed delete (the server kept its issues) leaves
\* the list and the pending confirmation unchanged.
DeleteOutcome ==
  DeleteAnswered =>
    IF Ids(store') # Ids(store)
    THEN deleteConfirm' = None
    ELSE issues' = issues /\ deleteConfirm' = deleteConfirm

\* C6: the two-step delete: request only from Confirm on the pending issue,
\* Cancel without request, success clears the confirmation, failure changes
\* neither the list nor the confirmation.
C6_TwoStepDelete ==
  [][DeleteOnlyWhenPending /\ CancelSendsNothing /\ DeleteOutcome]_vars

\* C6 witness: a DELETE is in flight for the issue pending confirmation
\* while another issue's card is displayed too.
C6_Witness ==
  \E i \in 1..Len(requests) :
    /\ requests[i].kind = "delete"
    /\ deleteConfirm = Some(requests[i].id)
    /\ \E k \in 1..Len(issues) :
         issues[k].id # requests[i].id /\ CardShown(issues[k])

\* the issues of one year held in a list
OfYear(list, year) ==
  LET InYear(issue) == issue.year = year IN SelectSeq(list, InYear)

\* C7: a year that stays expanded keeps its issues in component state: if
\* the list holds the year's issues before a step that changes nothing on
\* the server, it holds them after the step.
C7_ExpandedYearKeepsItsIssues ==
  [][\A year \in Range(expandedYears) \cap Range(expandedYears') :
       (/\ store' = store
        /\ ServerContent(store, year) # <<>>
        /\ OfYear(issues, year) = ServerContent(store, year))
         => OfYear(issues', year) = ServerContent(store, year)]_vars

\* the two requests of the mount have been answered and no other was made
MountSettled == years # <<>> /\ requests = <<>> /\ requestsSent = 2

\* C8: once the mount has loaded the issues of the first year returned by
\* the years request, that year is among the expanded years.
C8_FirstYearAutoExpanded ==
  (MountSettled /\ issues = ServerContent(store, years[1]))
    => years[1] \in Range(expandedYears)

\* ========================================================================
\* Properties: PdfViewer downloads
\* ========================================================================

\* every handleDownload invocation, suspended or completed last
AllDownloads == downloads \o lastDownload

FallbackOutcomes == {"rejected", "error response", "unreadable"}

\* C11: each download invocation fetches the raw URL once and makes exactly
\* one save: through the object URL when fetching and wrapping succeeded,
\* through a direct link on the raw URL when the request was rejected, the
\* response was an error response or the body was unreadable; every object
\* URL it created is revoked when it completes.
C11_DownloadFetchOrFallback ==
  /\ \A k \in 1..Len(downloads) :
       /\ downloads[k].fetched = <<downloads[k].props.pdfUrl>>
       /\ downloads[k].saves = <<>>
  /\ \A k \in 1..Len(lastDownload) :
       LET d == lastDownload[k] IN
         /\ d.fetched = <<d.props.pdfUrl>>
         /\ Len(d.saves) = 1
         /\ d.outcome = "ok" => d.saves[1].href = ObjectUrl
         /\ d.outcome \in FallbackOutcomes => d.saves[1].href = d.props.pdfUrl
         /\ Range(d.created) \subseteq Range(d.revoked)

\* every proxy URL an embed can target
ProxyUrls == {ProxyUrl(id[1]) : id \in ViewerIssueIds \ {None}}

\* C12: the embed targets /api/issues/pdf-proxy/{id} when an identifier is
\* supplied and the raw URL otherwise; the download fetch and the fallback
\* link use the raw URL, never the proxy URL, with or without an identifier.
C12_UrlSelection ==
  /\ viewerMounted =>
       /\ viewerProps.issueId # None =>
            iframeUrl(viewerProps) = ProxyUrl(viewerProps.issueId[1])
       /\ viewerProps.issueId = None =>
            iframeUrl(viewerProps) = viewerProps.pdfUrl
  /\ \A k \in 1..Len(AllDownloads) :
       LET d == AllDownloads[k] IN
         /\ Range(d.fetched) = {d.props.pdfUrl}
         /\ Range(d.fetched) \cap ProxyUrls = {}
         /\ \A j \in 1..Len(d.saves) :
              /\ d.saves[j].href \notin ProxyUrls
              /\ d.outcome \in {"rejected", "unreadable"} =>
                   d.saves[j].href = d.props.pdfUrl

\* an identifier is supplied, the embed is on the proxy, and a download of
\* that viewer has fallen back to a link on the raw URL
C12_Witness ==
  /\ viewerMounted
  /\ viewerProps.issueId # None
  /\ iframeUrl(viewerProps) \in ProxyUrls
  /\ lastDownload # None
  /\ lastDownload[1].props = viewerProps
  /\ lastDownload[1].outcome = "rejected"
  /\ lastDownload[1].saves[1].href = viewerProps.pdfUrl

DoublePdf == DotPdf \o DotPdf

\* the statement of C13 as written: every saved filename ends in exactly one
\* .pdf suffix, and is the title itself or the title with .pdf appended
C13_ExactlyOneSuffix ==
  \A k \in 1..Len(lastDownload) :
    LET d == lastDownload[k]
        t == d.props.title
    IN  \A j \in 1..Len(d.saves) :
          /\ EndsWith(d.saves[j].download, DotPdf)
          /\ ~EndsWith(d.saves[j].download, DoublePdf)
          /\ EndsWith(t, DotPdf) => d.saves[j].download = t
          /\ ~EndsWith(t, DotPdf) => d.saves[j].download = t \o DotPdf

\* C13: for every title the download filename ends in .pdf: it is the title
\* itself when the title already ends in .pdf and the title with .pdf
\* appended otherwise; it ends in exactly one .pdf suffix unless the title
\* itself ends in more than one.
C13_FilenameSuffix ==
  \A k \in 1..Len(lastDownload) :
    LET d == lastDownload[k]
        t == d.props.title
    IN  \A j \in 1..Len(d.saves) :
          /\ EndsWith(d.saves[j].download, DotPdf)
          /\ EndsWith(t, DotPdf) => d.saves[j].download = t
          /\ ~EndsWith(t, DotPdf) => d.saves[j].download = t \o DotPdf
          /\ ~EndsWith(t, DoublePdf) => ~EndsWith(d.saves[j].download, DoublePdf)

\* a title that already carries the suffix has been saved under its own name
C13_Witness ==
  /\ lastDownload # None
  /\ EndsWith(lastDownload[1].props.title, DotPdf)
  /\ ~EndsWith(lastDownload[1].props.title, DoublePdf)
  /\ lastDownload[1].saves[1].download = lastDownload[1].props.title

\* ========================================================================
\* Properties: AllIssues loading flag and edit sessions
\* ========================================================================

\* C18: after mount, once every outstanding request has completed, with a
\* response or with an error, the loading flag is false, so the page shows
\* the year list or the empty-archive state and not the loading indicator.
C18_LoadingClearedWhenIdle ==
  requests = <<>> =>
    /\ ~loading
    /\ years = <<>> \/ \A k \in 1..Len(years) : YearRowShown(years[k])

\* C19: when the save of issue A completes while the admin is editing
\* another issue B, B stays in edit mode with the title and description
\* entered for B, and A carries the values submitted for A.
C19_EditModeIsolation ==
  [][\A i \in Slots :
       (UpdateOk(i) /\ editingId # None /\ editingId # Some(requests[i].id))
         => /\ editingId' = editingId
            /\ editForm' = editForm
            /\ \A k \in 1..Len(issues') :
                 issues'[k].id = requests[i].id =>
                   /\ issues'[k].title = requests[i].form.title
                   /\ issues'[k].description = requests[i].form.description]_vars

\* ========================================================================
\* Properties: MonthView
\* ========================================================================

\* the statement of C14 as written: after a failed content fetch the list
\* is the one held before the request was made, and loading is cleared
C14_ListAsBeforeRequest ==
  [][\A i \in Slots :
       MonthFetchFails(i) =>
         /\ issues' = requests[i].before
         /\ ~loading']_vars

\* C14: when a content fetch fails, the issue list held by the component is
\* the list held when the failure arrives (the failing fetch changes
\* nothing), the loading indicator is cleared, and that list, possibly
\* empty, is what is displayed.
C14_FailedFetchKeepsList ==
  [][\A i \in Slots :
       MonthFetchFails(i) =>
         /\ issues' = issues
         /\ ~loading'
         /\ issues' = <<>> => PlaceholderShown']_vars

\* the only fetch of a month the server holds an issue for has failed: the
\* list is still the empty one, displayed as the placeholder
C14_Witness ==
  /\ requestsSent = 1
  /\ requests = <<>>
  /\ ServerMonthContent(store, route[1], route[2]) # <<>>
  /\ PlaceholderShown

\* C16: with content fetches overlapping, each successful response replaces
\* the whole list with its payload on arrival, whichever request was issued
\* last; after the last of them the list displayed is that payload.
C16_LastResponseWins ==
  [][\A i \in Slots :
       MonthFetchOk(i) =>
         /\ issues' = ServerMonthContent(store, requests[i].year,
                                         requests[i].month)
         /\ ~loading'
         /\ requests' = <<>> =>
              \/ PlaceholderShown'
              \/ \A k \in 1..Len(issues') :
                   /\ issues'[k].year = requests[i].year
                   /\ issues'[k].month = requests[i].month]_vars

\* two fetches overlapped and the one issued last was answered first: the
\* list is April's payload while March's request is still in flight
C16_Witness ==
  /\ route = <<2024, 4>>
  /\ Len(requests) = 1
  /\ requests[1].month = 3
  /\ requestsSent = 2
  /\ issues = <<IssueB>>
  /\ ~loading

\* C15: the archive browser and the month detail page offer upload, edit
\* and delete to the same users, and a user who is not offered them has no
\* upload, edit or delete request in flight.
C15_SameAdminGate ==
  /\ IsAdmin <=> MonthIsAdmin
  /\ ~(IsAdmin \/ MonthIsAdmin) =>
       /\ uploadRequests = <<>>
       /\ \A k \in 1..Len(requests) : requests[k].kind \notin {"put", "delete"}

\* handleSubmit has posted an upload in this step
UploadSent == Len(uploadRequests') = Len(uploadRequests) + 1

\* C17: no upload request is sent for a (year, month) for which the server
\* already holds an issue.
C17_NoUploadForOccupiedMonth ==
  [][UploadSent =>
       LET sent == uploadRequests'[Len(uploadRequests')]
       IN  ServerMonthContent(store, sent.year, sent.month) = <<>>]_vars


============================================================================
